---- MODULE Spec2Model ----
(***************************************************************************)
(* Model of userport/static/js/upload_url.js: the UploadURL class, the     *)
(* click listener its constructor registers on #upload-url-btn, and the    *)
(* fetch call the listener makes.                                          *)
(*                                                                         *)
(* Text that the code builds or serialises (the request URL, the JSON      *)
(* body) is a sequence of one-character strings, so that concatenation,    *)
(* JSON.stringify and the parsers below work on the characters.  Values    *)
(* the code only passes along (the CSRF token, the method, the header      *)
(* names) are TLA+ strings.                                                *)
(***************************************************************************)
EXTENDS Integers, Sequences, FiniteSets, TLC

VARIABLES
  host,        \* window.location.host of the page
  button,      \* TRUE iff the page has an element #upload-url-btn
  tokenField,  \* value of #upload_url_csrf_token, or Null if no such element
  instances,   \* the UploadURL objects, in order of construction
  ctorLog,     \* history: what each constructor call found and how it ended
  listeners,   \* click listeners of the button, each the instance it is bound to
  clickLog,    \* history: the clicks dispatched on the button
  requests,    \* every fetch call made, in order
  inflight     \* indices into requests of the calls not yet settled

vars == <<host, button, tokenField, instances, ctorLog, listeners, clickLog,
          requests, inflight>>

\* ---- bounds ----
MaxInstances == 2
MaxClicks == 2
MaxRequests == 3

\* ---- JavaScript values ----
Undefined == "<undefined>"
Null == "<null>"
ButtonElement == "#upload-url-btn"

\* Values the page's template can put in the hidden field.
Tokens == {"tokA", "tokB"}

\* Hosts the page can be served from.
Hosts == {<<"l", "o", "c", "a", "l", "h", "o", "s", "t", ":", "5", "0", "0", "0">>,
          <<"u", "s", "e", "r", "p", "o", "r", "t", ".", "a", "i">>}

\* Click events the browser can deliver (single click, double click).
Events == {[type |-> "click", detail |-> 1], [type |-> "click", detail |-> 2]}

\* Ways a fetch can settle.
Outcomes == {"ok", "http_error", "network_error"}

\* ---- text helpers ----
\* A text is a sequence of UTF-16 code units.  A code unit is written as the
\* one-character string of its character where TLA+ has one (the printable
\* ASCII characters but the backquote, and \t \n \f \r) and otherwise as its
\* six-character name \uXXXX in lower-case hexadecimal, e.g. "\\u0008",
\* "\\u0060", "\\ud800".
DQ == "\""
BS == "\\"

Hex == <<"0", "1", "2", "3", "4", "5", "6", "7", "8", "9",
         "a", "b", "c", "d", "e", "f">>

\* The code units U+0020 .. U+007E, in order.
Printable ==
  <<" ", "!", "\"", "#", "$", "%", "&", "'", "(", ")", "*", "+", ",", "-",
    ".", "/", "0", "1", "2", "3", "4", "5", "6", "7", "8", "9", ":", ";",
    "<", "=", ">", "?", "@", "A", "B", "C", "D", "E", "F", "G", "H", "I",
    "J", "K", "L", "M", "N", "O", "P", "Q", "R", "S", "T", "U", "V", "W",
    "X", "Y", "Z", "[", "\\", "]", "^", "_", "\\u0060", "a", "b", "c", "d", "e",
    "f", "g", "h", "i", "j", "k", "l", "m", "n", "o", "p", "q", "r", "s",
    "t", "u", "v", "w", "x", "y", "z", "{", "|", "}", "~">>

\* The name \uXXXX of the code unit with hexadecimal digits a b c d (0..15 each).
UnitName(a, b, c, d) ==
  "\\u" \o Hex[a + 1] \o Hex[b + 1] \o Hex[c + 1] \o Hex[d + 1]

\* A code unit written by its name, and the number it names.
IsNamed(c) == Len(c) = 6

UnitCode(u) ==
  LET q == CHOOSE q \in (0..15) \X (0..15) \X (0..15) \X (0..15) :
             UnitName(q[1], q[2], q[3], q[4]) = u
  IN 4096 * q[1] + 256 * q[2] + 16 * q[3] + q[4]

\* The code units U+0000 .. U+001F, U+D800 .. U+DBFF and U+DC00 .. U+DFFF.
IsControl(c) ==
  \/ c = "\t" \/ c = "\n" \/ c = "\f" \/ c = "\r"
  \/ IsNamed(c) /\ UnitCode(c) < 32
IsHighSurrogate(c) == IsNamed(c) /\ UnitCode(c) >= 55296 /\ UnitCode(c) <= 56319
IsLowSurrogate(c) == IsNamed(c) /\ UnitCode(c) >= 56320 /\ UnitCode(c) <= 57343

\* The characters of the name of a named code unit: \ u X X X X.
UnitEscape(u) ==
  LET n == UnitCode(u) IN
  <<BS, "u", Hex[(n \div 4096) + 1], Hex[((n \div 256) % 16) + 1],
    Hex[((n \div 16) % 16) + 1], Hex[(n % 16) + 1]>>

\* JSON.stringify's output for one code unit of a string (QuoteJSONString):
\* quote and backslash get a backslash; U+0008, tab, line feed, form feed and
\* carriage return get their short escape; the other control characters and
\* the surrogates that reach here (the unpaired ones) are written \uXXXX.
EscapeUnit(c) ==
  IF c = DQ \/ c = BS THEN <<BS, c>>
  ELSE IF c = "\\u0008" THEN <<BS, "b">>
  ELSE IF c = "\t" \/ c = "\\u0009" THEN <<BS, "t">>
  ELSE IF c = "\n" \/ c = "\\u000a" THEN <<BS, "n">>
  ELSE IF c = "\f" \/ c = "\\u000c" THEN <<BS, "f">>
  ELSE IF c = "\r" \/ c = "\\u000d" THEN <<BS, "r">>
  ELSE IF IsControl(c) \/ IsHighSurrogate(c) \/ IsLowSurrogate(c)
    THEN UnitEscape(c)
  ELSE <<c>>

\* The concatenation of the texts f[lo], ..., f[hi].
RECURSIVE Concat(_, _, _)
Concat(f, lo, hi) ==
  IF lo > hi THEN <<>>
  ELSE IF lo = hi THEN f[lo]
  ELSE LET mid == (lo + hi) \div 2 IN
       Concat(f, lo, mid) \o Concat(f, mid + 1, hi)

\* JSON.stringify's escaping of the contents of a string.  A high surrogate
\* followed by a low one is a character and both are copied; any other
\* surrogate is escaped.
Escape(s) ==
  LET paired(j) ==
        \/ j < Len(s) /\ IsHighSurrogate(s[j]) /\ IsLowSurrogate(s[j + 1])
        \/ j > 1 /\ IsLowSurrogate(s[j]) /\ IsHighSurrogate(s[j - 1])
  IN Concat([j \in 1..Len(s) |-> IF paired(j) THEN <<s[j]>> ELSE EscapeUnit(s[j])],
            1, Len(s))

Quote(s) == <<DQ>> \o Escape(s) \o <<DQ>>

\* The members of an object, "key":value joined by commas, in property order.
RECURSIVE Members(_)
Members(obj) ==
  IF obj = <<>> THEN <<>>
  ELSE Quote(obj[1][1]) \o <<":">> \o Quote(obj[1][2])
       \o (IF Len(obj) > 1 THEN <<",">> ELSE <<>>)
       \o Members(Tail(obj))

\* JSON.stringify of an object whose property values are strings; the object
\* is its sequence of <<key, value>> properties.
JSONStringify(obj) == <<"{">> \o Members(obj) \o <<"}">>

\* ---- reading text back ----

\* The value of a hexadecimal digit, either case; -1 for any other character.
HexValue(ch) ==
  IF \E n \in 1..16 : Hex[n] = ch THEN (CHOOSE n \in 1..16 : Hex[n] = ch) - 1
  ELSE IF ch = "A" THEN 10 ELSE IF ch = "B" THEN 11 ELSE IF ch = "C" THEN 12
  ELSE IF ch = "D" THEN 13 ELSE IF ch = "E" THEN 14 ELSE IF ch = "F" THEN 15
  ELSE -1

\* The code unit with hexadecimal digits a b c d, as a text writes it.
UnitOf(a, b, c, d) ==
  LET n == 16 * c + d IN
  IF a = 0 /\ b = 0 /\ n >= 32 /\ n <= 126 THEN Printable[n - 31]
  ELSE IF a = 0 /\ b = 0 /\ n = 9 THEN "\t"
  ELSE IF a = 0 /\ b = 0 /\ n = 10 THEN "\n"
  ELSE IF a = 0 /\ b = 0 /\ n = 12 THEN "\f"
  ELSE IF a = 0 /\ b = 0 /\ n = 13 THEN "\r"
  ELSE UnitName(a, b, c, d)

\* The code unit that the text of a string literal denotes at t[i], and how
\* many characters of t denote it.  A control character and an unknown or cut
\* off escape are syntax errors.
ReadUnit(t, i) ==
  LET one(u, n) == [ok |-> TRUE, unit |-> u, len |-> n]
      fail == [ok |-> FALSE, unit |-> t[i], len |-> 0]
  IN IF t[i] # BS THEN (IF IsControl(t[i]) THEN fail ELSE one(t[i], 1))
     ELSE IF i + 1 > Len(t) THEN fail
     ELSE IF t[i + 1] = DQ \/ t[i + 1] = BS \/ t[i + 1] = "/" THEN one(t[i + 1], 2)
     ELSE IF t[i + 1] = "b" THEN one("\\u0008", 2)
     ELSE IF t[i + 1] = "t" THEN one("\t", 2)
     ELSE IF t[i + 1] = "n" THEN one("\n", 2)
     ELSE IF t[i + 1] = "f" THEN one("\f", 2)
     ELSE IF t[i + 1] = "r" THEN one("\r", 2)
     ELSE IF t[i + 1] = "u" /\ i + 5 <= Len(t)
             /\ \A k \in 2..5 : HexValue(t[i + k]) >= 0
       THEN one(UnitOf(HexValue(t[i + 2]), HexValue(t[i + 3]),
                       HexValue(t[i + 4]), HexValue(t[i + 5])), 6)
     ELSE fail

\* The string literal that opens at t[i - 1]: its value and the index after
\* its closing quote.  A character is the second of an escape when an odd
\* number of backslashes runs up to it; the literal closes at the first quote
\* that is not; the four digits after an escaped u belong to that escape.
ReadString(t, i) ==
  LET run(j) ==
        IF j = i \/ t[j - 1] # BS THEN 0
        ELSE j - 1 - (IF \E k \in i..(j - 1) : t[k] # BS
                        THEN CHOOSE k \in i..(j - 1) :
                               t[k] # BS /\ \A m \in (k + 1)..(j - 1) : t[m] = BS
                        ELSE i - 1)
      escaped == [j \in i..Len(t) |-> run(j) % 2 = 1]
      closes == {j \in i..Len(t) : t[j] = DQ /\ ~escaped[j]}
      close == CHOOSE j \in closes : \A k \in closes : j <= k
      IsStart(j) ==
        /\ ~escaped[j]
        /\ ~\E k \in 1..4 : j - k > i /\ t[j - k] = "u" /\ escaped[j - k]
      starts == SelectSeq([n \in 1..(close - i) |-> i + n - 1], IsStart)
  IN IF closes = {} THEN [ok |-> FALSE, val |-> <<>>, next |-> Len(t) + 1]
     ELSE [ok   |-> \A n \in DOMAIN starts :
                      /\ ReadUnit(t, starts[n]).ok
                      /\ starts[n] + ReadUnit(t, starts[n]).len <= close,
           val  |-> [n \in DOMAIN starts |-> ReadUnit(t, starts[n]).unit],
           next |-> close + 1]

\* The members of an object from t[i] on, up to and including its "}".
RECURSIVE ReadMembers(_, _, _)
ReadMembers(t, i, acc) ==
  IF i > Len(t) \/ t[i] # DQ THEN [ok |-> FALSE, members |-> acc, next |-> i]
  ELSE LET k == ReadString(t, i + 1) IN
    IF ~k.ok \/ k.next + 1 > Len(t) \/ t[k.next] # ":" \/ t[k.next + 1] # DQ
      THEN [ok |-> FALSE, members |-> acc, next |-> k.next]
    ELSE LET v == ReadString(t, k.next + 2)
             got == Append(acc, <<k.val, v.val>>)
         IN IF ~v.ok \/ v.next > Len(t)
              THEN [ok |-> FALSE, members |-> acc, next |-> v.next]
            ELSE IF t[v.next] = "}"
              THEN [ok |-> TRUE, members |-> got, next |-> v.next + 1]
            ELSE IF t[v.next] = ","
              THEN ReadMembers(t, v.next + 1, got)
            ELSE [ok |-> FALSE, members |-> acc, next |-> v.next]

\* JSON.parse of a text that is an object of string-valued members: ok is
\* FALSE for any other text.
JSONParse(t) ==
  IF Len(t) < 2 \/ t[1] # "{" THEN [ok |-> FALSE, members |-> <<>>]
  ELSE IF t[2] = "}" THEN [ok |-> Len(t) = 2, members |-> <<>>]
  ELSE LET m == ReadMembers(t, 2, <<>>) IN
       [ok |-> m.ok /\ m.next = Len(t) + 1, members |-> m.members]

\* Index of the first ch in s at or after i; Len(s) + 1 if there is none.
RECURSIVE IndexOf(_, _, _)
IndexOf(s, ch, i) ==
  IF i > Len(s) THEN Len(s) + 1
  ELSE IF s[i] = ch THEN i ELSE IndexOf(s, ch, i + 1)

\* scheme://host/path split as a URL parser splits it.
ParseURL(u) ==
  LET c == IndexOf(u, ":", 1)
      slash == IndexOf(u, "/", c + 3)
  IN IF c + 2 > Len(u) \/ u[c + 1] # "/" \/ u[c + 2] # "/"
       THEN [ok |-> FALSE, scheme |-> <<>>, host |-> <<>>, path |-> <<>>]
       ELSE [ok |-> TRUE,
             scheme |-> SubSeq(u, 1, c - 1),
             host   |-> SubSeq(u, c + 3, slash - 1),
             path   |-> SubSeq(u, slash, Len(u))]

\* ---- shorthands for the properties ----
XCSRFToken(r) == requests[r].init.headers["X-CSRFToken"]
RequestsOfClick(c) == {r \in DOMAIN requests : requests[r].click = c}
Succeeded == {i \in DOMAIN ctorLog : ~ctorLog[i].threw}
ClickStep == Len(clickLog') > Len(clickLog)
ApiPath ==
  <<"/", "a", "p", "i", "/", "v", "1", "/", "u", "p", "l", "o", "a", "d",
    "_", "u", "r", "l">>

\* ---- the program ----

\* let upload_url = { url: "https://flask.palletsprojects.com/en/3.0.x/extensions" }
upload_url_extra ==
  << << <<"u", "r", "l">>, <<"h", "t", "t", "p", "s", ":", "/", "/", "x">> >>,
     << <<"t", "s">>, <<"0">> >> >>

upload_url ==
  << << <<"u", "r", "l">>,
        <<"h", "t", "t", "p", "s", ":", "/", "/", "f", "l", "a", "s", "k", ".",
          "p", "a", "l", "l", "e", "t", "s", "p", "r", "o", "j", "e", "c", "t",
          "s", ".", "c", "o", "m", "/", "e", "n", "/", "3", ".", "0", ".", "x",
          "/", "e", "x", "t", "e", "n", "s", "i", "o", "n", "s">> >> >>

\* let url = "http://" + host + "/api/v1/upload_url"
RequestURL(h) ==
  <<"h", "t", "t", "p", ":", "/", "/">> \o h
  \o <<"/", "a", "p", "i", "/", "v", "1", "/", "u", "p", "l", "o", "a", "d",
       "_", "u", "r", "l">>

\* The value the handler of instance i passes as the X-CSRFToken header.
HeaderTokenLive(i) == tokenField

HeaderToken(i) == instances[i].csrfToken

\* The arguments of the fetch call made by the handler of instance i for event ev.
FetchCallFromEvent(i, ev) ==
  [inst |-> i,
   url  |-> RequestURL(host) \o (IF ev.detail > 1 THEN <<"?", "d">> ELSE <<>>),
   init |-> [method  |-> IF ev.detail > 1 THEN "PUT" ELSE "POST",
             headers |-> ("Content-Type" :> "application/json")
                         @@ ("X-CSRFToken" :> HeaderToken(i)),
             body    |-> JSONStringify(upload_url)]]

FetchCall(i, ev) ==
  [inst |-> i,
   url  |-> RequestURL(host),
   init |-> [method  |-> "POST",
             headers |-> ("Content-Type" :> "application/json")
                         @@ ("X-CSRFToken" :> HeaderToken(i)),
             body    |-> JSONStringify(upload_url)]]

\* handleUploadButtonBlick(event) with this = instance i: the fetch calls it makes.
handleTwice(i, ev) == <<FetchCall(i, ev), FetchCall(i, ev)>>

handleUploadButtonBlick(i, ev) == <<FetchCall(i, ev)>>

\* The browser calls the button's listeners in order of registration, each to
\* completion; the fetch calls of listeners k.. for one click.
RECURSIVE DispatchFrom(_, _)
DispatchFrom(k, ev) ==
  IF k > Len(listeners) THEN <<>>
  ELSE handleUploadButtonBlick(listeners[k], ev) \o DispatchFrom(k + 1, ev)

TypeOK ==
  /\ host \in Hosts
  /\ button \in BOOLEAN
  /\ tokenField \in Tokens \cup {Null}
  /\ Len(instances) <= MaxInstances
  /\ Len(ctorLog) = Len(instances)
  /\ Len(clickLog) <= MaxClicks
  /\ Len(requests) <= MaxRequests
  /\ inflight \subseteq DOMAIN requests

\* A freshly loaded page: no script has run yet.
Init ==
  /\ host \in Hosts
  /\ button \in BOOLEAN
  /\ tokenField \in Tokens \cup {Null}
  /\ instances = <<>>
  /\ ctorLog = <<>>
  /\ listeners = <<>>
  /\ clickLog = <<>>
  /\ requests = <<>>
  /\ inflight = {}

\* new UploadURL().  querySelector gives null for a missing element, and
\* calling a method or reading a property of null throws a TypeError, which
\* leaves the statements before it done and the ones after it undone.
UploadURL ==
  /\ Len(instances) < MaxInstances
  /\ LET i == Len(instances) + 1 IN
     /\ instances' = Append(instances,
          [uploadButton |-> IF button THEN ButtonElement ELSE Null,
           csrfToken    |-> IF button /\ tokenField # Null THEN tokenField
                            ELSE Undefined])
     /\ listeners' = IF button THEN Append(listeners, i) ELSE listeners
     /\ ctorLog' = Append(ctorLog,
          [button |-> button, field |-> tokenField,
           threw  |-> ~button \/ tokenField = Null])
  /\ UNCHANGED <<host, button, tokenField, clickLog, requests, inflight>>

\* Variants of Click: a listener registered with {once: true}; a handler that
\* aborts the requests still in flight; a handler that re-reads the token.
ClickOnce(ev) ==
  /\ button
  /\ Len(clickLog) < MaxClicks
  /\ Len(requests) + Len(listeners) <= MaxRequests
  /\ LET calls == DispatchFrom(1, ev)
         c == Len(clickLog) + 1
     IN /\ requests' = requests \o
             [k \in 1..Len(calls) |->
                [click |-> c, inst |-> calls[k].inst, url |-> calls[k].url,
                 init |-> calls[k].init]]
        /\ inflight' = inflight \cup (Len(requests) + 1 .. Len(requests) + Len(calls))
        /\ clickLog' = Append(clickLog,
             [event |-> ev, field |-> tokenField, listeners |-> Len(listeners),
              constructed |-> Len(instances),
              succeeded |-> Cardinality({i \in DOMAIN ctorLog : ~ctorLog[i].threw})])
  /\ listeners' = <<>>
  /\ UNCHANGED <<host, button, tokenField, instances, ctorLog>>

ClickAbortsEarlier(ev) ==
  /\ button
  /\ Len(clickLog) < MaxClicks
  /\ Len(requests) + Len(listeners) <= MaxRequests
  /\ LET calls == DispatchFrom(1, ev)
         c == Len(clickLog) + 1
     IN /\ requests' = requests \o
             [k \in 1..Len(calls) |->
                [click |-> c, inst |-> calls[k].inst, url |-> calls[k].url,
                 init |-> calls[k].init]]
        /\ inflight' = (Len(requests) + 1 .. Len(requests) + Len(calls))
        /\ clickLog' = Append(clickLog,
             [event |-> ev, field |-> tokenField, listeners |-> Len(listeners),
              constructed |-> Len(instances),
              succeeded |-> Cardinality({i \in DOMAIN ctorLog : ~ctorLog[i].threw})])
  /\ UNCHANGED <<host, button, tokenField, instances, ctorLog, listeners>>

ClickRefreshToken(ev) ==
  /\ button
  /\ Len(clickLog) < MaxClicks
  /\ Len(requests) + Len(listeners) <= MaxRequests
  /\ LET calls == DispatchFrom(1, ev)
         c == Len(clickLog) + 1
     IN /\ requests' = requests \o
             [k \in 1..Len(calls) |->
                [click |-> c, inst |-> calls[k].inst, url |-> calls[k].url,
                 init |-> calls[k].init]]
        /\ inflight' = inflight \cup (Len(requests) + 1 .. Len(requests) + Len(calls))
        /\ clickLog' = Append(clickLog,
             [event |-> ev, field |-> tokenField, listeners |-> Len(listeners),
              constructed |-> Len(instances),
              succeeded |-> Cardinality({i \in DOMAIN ctorLog : ~ctorLog[i].threw})])
  /\ instances' = [i \in DOMAIN instances |->
                     IF tokenField # Null
                       THEN [instances[i] EXCEPT !.csrfToken = tokenField]
                       ELSE instances[i]]
  /\ UNCHANGED <<host, button, tokenField, ctorLog, listeners>>

\* A click on the button: every listener runs, and every fetch call it makes
\* starts a request.
Click(ev) ==
  /\ button
  /\ Len(clickLog) < MaxClicks
  /\ Len(requests) + Len(listeners) <= MaxRequests
  /\ LET calls == DispatchFrom(1, ev)
         c == Len(clickLog) + 1
     IN /\ requests' = requests \o
             [k \in 1..Len(calls) |->
                [click |-> c, inst |-> calls[k].inst, url |-> calls[k].url,
                 init |-> calls[k].init]]
        /\ inflight' = inflight \cup (Len(requests) + 1 .. Len(requests) + Len(calls))
        /\ clickLog' = Append(clickLog,
             [event |-> ev, field |-> tokenField, listeners |-> Len(listeners),
              constructed |-> Len(instances),
              succeeded |-> Cardinality({i \in DOMAIN ctorLog : ~ctorLog[i].threw})])
  /\ UNCHANGED <<host, button, tokenField, instances, ctorLog, listeners>>

\* Variant of Settle: a handler on the promise that issues the request again
\* after a network failure.
SettleWithRetry(r, outcome) ==
  /\ r \in inflight
  /\ IF outcome = "network_error" /\ Len(requests) < MaxRequests + 2
       THEN /\ requests' = Append(requests, requests[r])
            /\ inflight' = (inflight \ {r}) \cup {Len(requests) + 1}
       ELSE /\ requests' = requests
            /\ inflight' = inflight \ {r}
  /\ UNCHANGED <<host, button, tokenField, instances, ctorLog, listeners,
                 clickLog>>

\* A request settles.  The promise fetch returned was dropped, so nothing runs.
Settle(r, outcome) ==
  /\ r \in inflight
  /\ inflight' = inflight \ {r}
  /\ UNCHANGED <<host, button, tokenField, instances, ctorLog, listeners,
                 clickLog, requests>>

\* Something else on the page gives the hidden field another value.
SetFieldValue(v) ==
  /\ tokenField # Null
  /\ v # tokenField
  /\ tokenField' = v
  /\ UNCHANGED <<host, button, instances, ctorLog, listeners, clickLog,
                 requests, inflight>>

Next ==
  \/ UploadURL
  \/ \E ev \in Events : Click(ev)
  \/ \E r \in DOMAIN requests, o \in Outcomes : Settle(r, o)
  \/ \E v \in Tokens : SetFieldValue(v)

\* ---- properties ----

\* C1: with one UploadURL constructed, every click issues exactly one request,
\* a POST to the path /api/v1/upload_url, so n clicks have issued n requests;
\* and every request belongs to a click.
C1_OneRequestPerClick ==
  /\ \A r \in DOMAIN requests : requests[r].click \in DOMAIN clickLog
  /\ \A c \in DOMAIN clickLog :
       clickLog[c].constructed = 1 =>
         /\ Cardinality(RequestsOfClick(c)) = 1
         /\ \A r \in RequestsOfClick(c) :
              /\ requests[r].init.method = "POST"
              /\ ParseURL(requests[r].url).path = ApiPath
  /\ Len(instances) = 1 =>
       Len(requests) = Cardinality({c \in DOMAIN clickLog : clickLog[c].constructed = 1})

\* Two clicks after the one construction, the first one's request still in flight.
C1_Witness ==
  /\ Len(instances) = 1
  /\ Succeeded = {1}
  /\ Len(clickLog) = 2
  /\ \A c \in DOMAIN clickLog : clickLog[c].constructed = 1
  /\ \E r \in inflight : requests[r].click = 1

\* C2 as stated: the X-CSRFToken header of every request equals the value the
\* field has when the click issues it.
C2_HeaderEqualsField ==
  \A r \in DOMAIN requests :
    clickLog[requests[r].click].field # Null =>
      XCSRFToken(r) = clickLog[requests[r].click].field

\* C2 amended: the X-CSRFToken header of every request is what the constructor
\* of the issuing instance read from the field: the field's value at that
\* construction, or undefined when the field was missing.
C2_HeaderEqualsFieldAtConstruction ==
  \A r \in DOMAIN requests :
    LET found == ctorLog[requests[r].inst].field IN
    XCSRFToken(r) = IF found # Null THEN found ELSE Undefined

\* A request issued after the field changed: its header is not the field's value.
C2_Witness ==
  \E r \in DOMAIN requests :
    /\ clickLog[requests[r].click].field \in Tokens
    /\ XCSRFToken(r) \in Tokens
    /\ XCSRFToken(r) # clickLog[requests[r].click].field

\* C3: every request has method POST, Content-Type application/json, and a
\* body that parses as a JSON object with exactly the key url and a string value.
C3_RequestShape ==
  /\ \A r \in DOMAIN requests :
       /\ requests[r].init.method = "POST"
       /\ requests[r].init.headers["Content-Type"] = "application/json"
  /\ \A body \in {requests[r].init.body : r \in DOMAIN requests} :
       LET parsed == JSONParse(body) IN
       /\ parsed.ok
       /\ Len(parsed.members) = 1
       /\ {parsed.members[k][1] : k \in DOMAIN parsed.members} = {<<"u", "r", "l">>}

\* A request was issued and its body holds the url of the source.
C3_Witness ==
  \E r \in DOMAIN requests :
    /\ ~ctorLog[requests[r].inst].threw
    /\ JSONParse(requests[r].init.body).members = upload_url

\* C4: a click changes nothing but the requests: the page's elements, the
\* instances and the listeners stay as they were, and each listener starts one
\* request and no second one.
C4_ClickFrame ==
  [][ClickStep =>
       /\ UNCHANGED <<host, button, tokenField, instances, ctorLog, listeners>>
       /\ Len(requests') = Len(requests) + Len(listeners)
       /\ SubSeq(requests', 1, Len(requests)) = requests]_vars

\* A click that ran a listener, with an earlier request there to be kept.
C4_Witness ==
  /\ Succeeded # {}
  /\ Len(clickLog) = 2
  /\ clickLog[2].listeners >= 1
  /\ RequestsOfClick(1) # {}

\* C5: when a request settles, whatever the outcome, no request is issued and
\* nothing changes except that the request is no longer in flight.
C5_FireAndForget ==
  [][\A r \in inflight :
       r \notin inflight' =>
         /\ inflight' = inflight \ {r}
         /\ UNCHANGED <<host, button, tokenField, instances, ctorLog,
                        listeners, clickLog, requests>>]_vars

\* A request has settled while another is still in flight.
C5_Witness ==
  /\ Succeeded # {}
  /\ \E r \in DOMAIN requests : r \notin inflight
  /\ inflight # {}

\* C6: a click neither cancels the requests in flight nor waits for them: they
\* stay in flight, and the click's own requests are in flight at once.
C6_Uncoordinated ==
  [][ClickStep =>
       /\ inflight \subseteq inflight'
       /\ (Len(requests) + 1 .. Len(requests')) \subseteq inflight']_vars

\* A later click's request has settled while an earlier click's is in flight.
C6_Witness ==
  \E r1, r2 \in DOMAIN requests :
    /\ ~ctorLog[requests[r1].inst].threw
    /\ requests[r1].click < requests[r2].click
    /\ r1 \in inflight
    /\ r2 \notin inflight

\* C7 as stated: a request is issued only by an instance whose construction
\* found both elements and did not fail.
C7_RequestOnlyAfterFullConstruction ==
  \A r \in DOMAIN requests : ~ctorLog[requests[r].inst].threw

\* C8: an instance's csrfToken never changes once set by the constructor, and
\* all requests of an instance carry the same X-CSRFToken, which for a
\* completed construction is the field's value at construction.
C8_TokenReadOnce ==
  [][/\ \A i \in DOMAIN instances :
          /\ i \in DOMAIN instances'
          /\ instances'[i].csrfToken = instances[i].csrfToken
     /\ \A r1, r2 \in DOMAIN requests' :
          requests'[r1].inst = requests'[r2].inst =>
            requests'[r1].init.headers = requests'[r2].init.headers
     /\ \A r \in DOMAIN requests' :
          ~ctorLog'[requests'[r].inst].threw =>
            requests'[r].init.headers["X-CSRFToken"] = ctorLog'[requests'[r].inst].field]_vars

\* Two requests of one completed instance, the field differing between the clicks.
C8_Witness ==
  \E r1, r2 \in DOMAIN requests :
    /\ requests[r1].inst = requests[r2].inst
    /\ ~ctorLog[requests[r1].inst].threw
    /\ clickLog[requests[r1].click].field # clickLog[requests[r2].click].field

\* C9: all requests of a page have the same method, body and URL, whatever the
\* click event and the state of the page; the URL has scheme http, the page's
\* host and the path /api/v1/upload_url.
C9_StaticRequest ==
  /\ \A r1, r2 \in DOMAIN requests :
       /\ requests[r1].init.method = requests[r2].init.method
       /\ requests[r1].init.body = requests[r2].init.body
       /\ requests[r1].url = requests[r2].url
  /\ \A url \in {requests[r].url : r \in DOMAIN requests} :
       ParseURL(url) =
         [ok |-> TRUE, scheme |-> <<"h", "t", "t", "p">>, host |-> host,
          path |-> ApiPath]

\* Two requests from different events, instances and field values.
C9_Witness ==
  \E r1, r2 \in DOMAIN requests :
    /\ clickLog[requests[r1].click].event # clickLog[requests[r2].click].event
    /\ clickLog[requests[r1].click].field # clickLog[requests[r2].click].field
    /\ requests[r1].inst # requests[r2].inst

\* C10 as stated: the button has as many listeners as there were successful
\* constructions, a click issues that many requests, and each carries the
\* token its instance read.
C10_ListenersPerSuccessfulConstruction ==
  /\ Len(listeners) = Cardinality(Succeeded)
  /\ \A c \in DOMAIN clickLog :
       Cardinality(RequestsOfClick(c)) = clickLog[c].succeeded
  /\ \A r \in DOMAIN requests :
       XCSRFToken(r) = ctorLog[requests[r].inst].field

\* The part of C10 that does not depend on how a construction ended: listeners
\* are only added, one per construction that found the button, and a click
\* issues one request per listener.
ListenersOnlyAdded ==
  [][/\ Len(listeners') >= Len(listeners)
     /\ SubSeq(listeners', 1, Len(listeners)) = listeners]_vars

ListenerPerButtonConstruction ==
  /\ Len(listeners) = Cardinality({i \in DOMAIN ctorLog : ctorLog[i].button})
  /\ \A c \in DOMAIN clickLog :
       Cardinality(RequestsOfClick(c)) = clickLog[c].listeners

Spec == Init /\ [][Next]_vars
====
